---- MODULE Spec2Model ----
(***************************************************************************)
(* The binding pass of ares-vm (src/src/compiler/binding/mod.rs): the      *)
(* recursive transform Bound::bind over an Ast, with its three Binder      *)
(* implementations, as a state machine whose steps are the activations of  *)
(* Bound::bind.  stack is the Rust call stack of bind, binders the chain   *)
(* of Binder objects that are alive (each new binder's parent is the one   *)
(* below it), interner the SymbolIntern's gensym counter.                  *)
(***************************************************************************)
EXTENDS Integers, Sequences, FiniteSets, TLC

VARIABLES ast, stack, binders, interner, result, cso

vars == <<ast, stack, binders, interner, result, cso>>

-----------------------------------------------------------------------------
(* Bounds of the checked input family.                                     *)

NumSyms == 2
MaxArgs == 2
MaxBodies == 2

Syms == 1..NumSyms

-----------------------------------------------------------------------------
(* compiler::parse::Ast.  A node is a record; kids holds the children in   *)
(* source order (for MapLit: key, value, key, value, ...).  A node's Span  *)
(* is its position in the tree: the path of child indices from the root.   *)

Node(kind, sym, args, kids) ==
    [kind |-> kind, sym |-> sym, args |-> args, kids |-> kids]

BoolLit == Node("BoolLit", 0, <<>>, <<>>)
StringLit == Node("StringLit", 0, <<>>, <<>>)
IntLit == Node("IntLit", 0, <<>>, <<>>)
FloatLit == Node("FloatLit", 0, <<>>, <<>>)
SymbolAst(s) == Node("Symbol", s, <<>>, <<>>)
ListLitAst(elements) == Node("ListLit", 0, <<>>, elements)
MapLitAst(elements) == Node("MapLit", 0, <<>>, elements)
AddAst(elements) == Node("Add", 0, <<>>, elements)
QuoteAst(q) == Node("Quote", 0, <<>>, <<q>>)
ListAst(elements) == Node("List", 0, <<>>, elements)
IfAst(a, b, c) == Node("If", 0, <<>>, <<a, b, c>>)
LambdaAst(args, body) == Node("Lambda", 0, args, <<body>>)
DefineAst(s, value) == Node("Define", s, <<>>, <<value>>)
BlockAst(bodies) == Node("Block", 0, <<>>, bodies)

LiteralKinds == {"BoolLit", "StringLit", "IntLit", "FloatLit"}

-----------------------------------------------------------------------------
(* SymbolBindSource, LambdaBindings, BindingError and Bound.               *)

Arg(i) == [tag |-> "Arg", idx |-> i, sym |-> 0]
Upvar(i) == [tag |-> "Upvar", idx |-> i, sym |-> 0]
LocalDefine(i) == [tag |-> "LocalDefine", idx |-> i, sym |-> 0]
Global(s) == [tag |-> "Global", idx |-> 0, sym |-> s]

NoSource == [tag |-> "None", idx |-> 0, sym |-> 0]
Some(src) == [some |-> TRUE, val |-> src]
None == [some |-> FALSE, val |-> NoSource]

EmptyMap == [s \in {} |-> 0]

Insert(map, key, value) ==
    [k \in DOMAIN map \cup {key} |-> IF k = key THEN value ELSE map[k]]

(* Variant: a fresh summary already counts one upvar.                      *)
LambdaBindings_new_OneUpvar ==
    [bindings |-> EmptyMap, num_args |-> 0, num_upvars |-> 1, num_declarations |-> 0]

LambdaBindings_new ==
    [bindings |-> EmptyMap, num_args |-> 0, num_upvars |-> 0, num_declarations |-> 0]

NoBindings == [bindings |-> EmptyMap, num_args |-> 0, num_upvars |-> 0,
               num_declarations |-> 0]

CouldNotBind(symbol, span) == [error |-> "CouldNotBind", symbol |-> symbol, span |-> span]
AlreadyDefined(symbol) == [error |-> "AlreadyDefined", symbol |-> symbol, span |-> <<>>]

BoundNode(kind, symbol, source, arg_symbols, bindings, quoting, kids, span) ==
    [kind |-> kind, symbol |-> symbol, source |-> source,
     arg_symbols |-> arg_symbols, bindings |-> bindings, quoting |-> quoting,
     kids |-> kids, ast |-> span]

NoAst == Node("None", 0, <<>>, <<>>)
NoBound == BoundNode("None", 0, NoSource, <<>>, NoBindings, NoAst, <<>>, <<>>)
NoError == [error |-> "None", symbol |-> 0, span |-> <<>>]

Ok(bound) == [tag |-> "Ok", bound |-> bound, err |-> NoError]
Err(error) == [tag |-> "Err", bound |-> NoBound, err |-> error]
Panicked == [tag |-> "Panic", bound |-> NoBound, err |-> NoError]
Running == [tag |-> "Running", bound |-> NoBound, err |-> NoError]
NotCalled == [tag |-> "NotCalled", bound |-> NoBound, err |-> NoError]

-----------------------------------------------------------------------------
(* The Binder implementations.  A binder's parent is the binder below it   *)
(* in the chain.  The u32 counters stay far below 2^32 on every input of   *)
(* the family, so they are plain naturals here.                            *)

BuckStopsHereBinder ==
    [type |-> "BuckStopsHereBinder", args |-> <<>>, bindings |-> NoBindings,
     symbol_map |-> EmptyMap]

(* Variant: the first parameter of a name keeps its slot.                  *)
RECURSIVE InsertArgsFirstWins(_, _, _)
InsertArgsFirstWins(map, args, i) ==
    IF i >= Len(args) THEN map
    ELSE InsertArgsFirstWins(IF args[i + 1] \in DOMAIN map THEN map
                             ELSE Insert(map, args[i + 1], Arg(i)), args, i + 1)

RECURSIVE InsertArgs(_, _, _)
InsertArgs(map, args, i) ==
    IF i >= Len(args) THEN map
    ELSE InsertArgs(Insert(map, args[i + 1], Arg(i)), args, i + 1)

(* Variant: LambdaBinder::new over the first-wins map.                     *)
LambdaBinder_new_FirstWins(args) ==
    [type |-> "LambdaBinder", args |-> args,
     bindings |-> [LambdaBindings_new EXCEPT
                     !.bindings = InsertArgsFirstWins(EmptyMap, args, 0),
                     !.num_args = Len(args)],
     symbol_map |-> EmptyMap]

(* Variant: num_args counts the distinct parameter names.                  *)
LambdaBinder_new_CountsNames(args) ==
    [type |-> "LambdaBinder", args |-> args,
     bindings |-> [LambdaBindings_new EXCEPT
                     !.bindings = InsertArgs(EmptyMap, args, 0),
                     !.num_args = Cardinality({args[i] : i \in 1..Len(args)})],
     symbol_map |-> EmptyMap]

LambdaBinder_new(args) ==
    [type |-> "LambdaBinder", args |-> args,
     bindings |-> [LambdaBindings_new EXCEPT
                     !.bindings = InsertArgs(EmptyMap, args, 0),
                     !.num_args = Len(args)],
     symbol_map |-> EmptyMap]

BlockBinder_new ==
    [type |-> "BlockBinder", args |-> <<>>, bindings |-> NoBindings,
     symbol_map |-> EmptyMap]

(* SymbolIntern::gensym: a symbol distinct from every symbol handed out so *)
(* far; interner is the next unused symbol.                                *)
gensym(intr) == [symbol |-> intr, interner |-> intr + 1]

(* Variant: a function never reports a name as bound.                      *)
LambdaBinder_already_binds_Never(b, symbol) == FALSE

LambdaBinder_already_binds(b, symbol) == symbol \in DOMAIN b.bindings.bindings

(* Variant: a symbol the function does not bind is taken as a global.      *)
LambdaBinder_lookup_Global(b, symbol) ==
    IF symbol \in DOMAIN b.bindings.bindings
    THEN Some(b.bindings.bindings[symbol])
    ELSE Some(Global(symbol))

(* Variant: a symbol the function does not bind is taken as captured.      *)
LambdaBinder_lookup_Captures(b, symbol) ==
    IF symbol \in DOMAIN b.bindings.bindings
    THEN Some(b.bindings.bindings[symbol])
    ELSE Some(Upvar(0))

LambdaBinder_lookup(b, symbol) ==
    IF symbol \in DOMAIN b.bindings.bindings
    THEN Some(b.bindings.bindings[symbol])
    ELSE None

(* Variant: the slot index is the size of the map.                         *)
LambdaBinder_add_declaration_MapSize(b, symbol) ==
    LET source == LocalDefine(Cardinality(DOMAIN b.bindings.bindings)) IN
    [panic |-> symbol \in DOMAIN b.bindings.bindings,
     source |-> source,
     binder |-> [b EXCEPT !.bindings.bindings = Insert(@, symbol, source),
                          !.bindings.num_declarations = @ + 1]]

(* assert!(!contains_key) is the field panic of the outcome.               *)
LambdaBinder_add_declaration(b, symbol) ==
    LET source == LocalDefine(b.bindings.num_declarations) IN
    [panic |-> symbol \in DOMAIN b.bindings.bindings,
     source |-> source,
     binder |-> [b EXCEPT !.bindings.bindings = Insert(@, symbol, source),
                          !.bindings.num_declarations = @ + 1]]

BuckStopsHereBinder_add_declaration(symbol) == Global(symbol)

(* Variant: the outermost binder reports every name as bound.              *)
BuckStopsHereBinder_already_binds_Always(symbol) == TRUE

BuckStopsHereBinder_already_binds(symbol) == FALSE

(* Variant: the outermost binder knows the symbols of the source text only.*)
BuckStopsHereBinder_lookup_SourceOnly(symbol) ==
    IF symbol \in Syms THEN Some(Global(symbol)) ELSE None

(* Variant: the outermost binder knows no symbol.                          *)
BuckStopsHereBinder_lookup_None(symbol) == None

BuckStopsHereBinder_lookup(symbol) == Some(Global(symbol))

(* Variant: a block looks a name up under the name it was written with.    *)
BlockBinder_translate_Surface(b, symbol) == symbol

BlockBinder_translate(b, symbol) ==
    IF symbol \in DOMAIN b.symbol_map THEN b.symbol_map[symbol] ELSE symbol

(* Variant: the block hands the surface symbol to its parent.              *)
BlockBinder_add_declaration_Unmasked(b, symbol, intr) ==
    LET g == gensym(intr) IN
    [binder |-> [b EXCEPT !.symbol_map = Insert(@, symbol, g.symbol)],
     forward |-> symbol, interner |-> g.interner]

(* The block's own part of add_declaration: forward is the symbol handed   *)
(* to self.parent.add_declaration.                                         *)
BlockBinder_add_declaration(b, symbol, intr) ==
    LET g == gensym(intr) IN
    [binder |-> [b EXCEPT !.symbol_map = Insert(@, symbol, g.symbol)],
     forward |-> g.symbol, interner |-> g.interner]

(* Variant: a block asks only its parent.                                  *)
BlockBinder_already_binds_ParentOnly(b, symbol, parent_binds) == parent_binds

(* parent_binds is self.parent.already_binds(symbol).                      *)
BlockBinder_already_binds(b, symbol, parent_binds) ==
    symbol \in DOMAIN b.symbol_map \/ parent_binds

(* Variant: a function also asks the binder it is nested in.               *)
RECURSIVE already_binds_ThroughFunctions(_, _, _)
already_binds_ThroughFunctions(bs, i, symbol) ==
    CASE bs[i].type = "BuckStopsHereBinder" -> BuckStopsHereBinder_already_binds(symbol)
      [] bs[i].type = "LambdaBinder" ->
            \/ LambdaBinder_already_binds(bs[i], symbol)
            \/ already_binds_ThroughFunctions(bs, i - 1, symbol)
      [] bs[i].type = "BlockBinder" ->
            BlockBinder_already_binds(bs[i], symbol,
                                      already_binds_ThroughFunctions(bs, i - 1, symbol))

RECURSIVE already_binds(_, _, _)
already_binds(bs, i, symbol) ==
    CASE bs[i].type = "BuckStopsHereBinder" -> BuckStopsHereBinder_already_binds(symbol)
      [] bs[i].type = "LambdaBinder" -> LambdaBinder_already_binds(bs[i], symbol)
      [] bs[i].type = "BlockBinder" ->
            BlockBinder_already_binds(bs[i], symbol, already_binds(bs, i - 1, symbol))

RECURSIVE lookup(_, _, _)
lookup(bs, i, symbol) ==
    CASE bs[i].type = "BuckStopsHereBinder" -> BuckStopsHereBinder_lookup(symbol)
      [] bs[i].type = "LambdaBinder" -> LambdaBinder_lookup(bs[i], symbol)
      [] bs[i].type = "BlockBinder" ->
            lookup(bs, i - 1, BlockBinder_translate(bs[i], symbol))

(* add_declaration on binder i: the chain and interner after the call, the *)
(* source returned, and whether LambdaBinder's assertion failed.           *)
RECURSIVE add_declaration(_, _, _, _)
add_declaration(bs, i, symbol, intr) ==
    CASE bs[i].type = "BuckStopsHereBinder" ->
            [binders |-> bs, interner |-> intr, panic |-> FALSE,
             source |-> BuckStopsHereBinder_add_declaration(symbol)]
      [] bs[i].type = "LambdaBinder" ->
            LET r == LambdaBinder_add_declaration(bs[i], symbol) IN
            [binders |-> [bs EXCEPT ![i] = r.binder], interner |-> intr,
             panic |-> r.panic, source |-> r.source]
      [] bs[i].type = "BlockBinder" ->
            LET r == BlockBinder_add_declaration(bs[i], symbol, intr) IN
            add_declaration([bs EXCEPT ![i] = r.binder], i - 1, r.forward, r.interner)

(* Variant: locals are numbered from the bottom of the frame.              *)
compute_stack_offset_LocalsFromZero(self, bind_source) ==
    CASE bind_source.tag = "Arg" -> [panic |-> FALSE, offset |-> bind_source.idx]
      [] bind_source.tag = "Upvar" -> [panic |-> TRUE, offset |-> 0]
      [] bind_source.tag = "LocalDefine" -> [panic |-> FALSE, offset |-> bind_source.idx]
      [] bind_source.tag = "Global" -> [panic |-> TRUE, offset |-> 0]

(* Variant: locals are laid out right after the arguments.                 *)
compute_stack_offset_NoUpvars(self, bind_source) ==
    CASE bind_source.tag = "Arg" -> [panic |-> FALSE, offset |-> bind_source.idx]
      [] bind_source.tag = "Upvar" -> [panic |-> TRUE, offset |-> 0]
      [] bind_source.tag = "LocalDefine" ->
            [panic |-> FALSE, offset |-> self.num_args + bind_source.idx]
      [] bind_source.tag = "Global" -> [panic |-> TRUE, offset |-> 0]

(* LambdaBindings::compute_stack_offset; unimplemented!() is a panic.      *)
compute_stack_offset(self, bind_source) ==
    CASE bind_source.tag = "Arg" -> [panic |-> FALSE, offset |-> bind_source.idx]
      [] bind_source.tag = "Upvar" -> [panic |-> TRUE, offset |-> 0]
      [] bind_source.tag = "LocalDefine" ->
            [panic |-> FALSE,
             offset |-> self.num_args + self.num_upvars + bind_source.idx]
      [] bind_source.tag = "Global" -> [panic |-> TRUE, offset |-> 0]

-----------------------------------------------------------------------------
(* The input family: the syntax trees bind_top is run on.                  *)

SeqsUpTo(S, n) == UNION {[1..k -> S] : k \in 0..n}

Params == SeqsUpTo(Syms, MaxArgs)

FewParams == {<<>>, <<1>>}

Literals == {BoolLit, StringLit, IntLit, FloatLit}

Symbols == {SymbolAst(s) : s \in Syms}

Leaves == {IntLit} \cup Symbols

Small == Symbols \cup {DefineAst(s, IntLit) : s \in Syms}

Items == Leaves \cup {DefineAst(s, v) : s \in Syms, v \in Leaves}

OneOrNone(S) == {<<>>} \cup {<<x>> : x \in S}

(* The end-to-end examples of the test suite and the specification.        *)
ExampleOneArg == LambdaAst(<<1>>, BlockAst(<<SymbolAst(1)>>))

ExampleTwoArgs == LambdaAst(<<1, 2>>, BlockAst(<<AddAst(<<SymbolAst(1), SymbolAst(2)>>)>>))

ExampleDuplicate ==
    LambdaAst(<<>>, BlockAst(<<DefineAst(1, IntLit), DefineAst(1, IntLit), SymbolAst(1)>>))

ExampleFreeVariable ==
    LambdaAst(<<1>>, BlockAst(<<LambdaAst(<<>>, BlockAst(<<SymbolAst(1)>>))>>))

Examples == {ExampleOneArg, ExampleTwoArgs, ExampleDuplicate, ExampleFreeVariable}

(* What a Quote holds: forms that would bind and forms that would not.     *)
Quoted == Items \cup {ExampleDuplicate, ExampleFreeVariable}

(* Compound forms over the small expressions.                              *)
Forms ==
    {QuoteAst(q) : q \in Quoted}
    \cup {IfAst(a, b, c) : a \in Small, b \in Small, c \in Small}
    \cup {MapLitAst(kv) : kv \in {<<>>} \cup {<<k, v>> : k \in Small, v \in Small}}
    \cup {ListLitAst(e) : e \in SeqsUpTo(Small, 2)}
    \cup {AddAst(e) : e \in SeqsUpTo(Small, 2)}
    \cup {ListAst(e) : e \in SeqsUpTo(Small, 2)}
    \cup {DefineAst(s, DefineAst(t, v)) : s \in Syms, t \in Syms, v \in Leaves}

(* Blocks nested one and two deep.                                         *)
InnerBlocks == {BlockAst(b) : b \in OneOrNone(Small)}

Around(S, X) ==
    {<<b>> : b \in S} \cup {<<x, b>> : x \in X, b \in S} \cup {<<b, x>> : b \in S, x \in X}

DeepBlocks == {BlockAst(b) : b \in Around(InnerBlocks, Small)}

(* Function literals nested in a body, bare or as a declaration's value.   *)
InnerLambdas ==
    {LambdaAst(args, BlockAst(b)) : args \in FewParams, b \in OneOrNone(Small)}

LambdaItems == InnerLambdas \cup {DefineAst(s, l) : s \in Syms, l \in InnerLambdas}

(* The sequences of sub-expressions that make a body.                      *)
Bodies ==
    SeqsUpTo(Small \cup {IntLit}, MaxBodies)
    \cup SeqsUpTo(Items, 2)
    \cup {<<f>> \o tail : f \in Forms, tail \in OneOrNone(Small)}
    \cup SeqsUpTo(InnerBlocks \cup Small, 2)
    \cup Around(DeepBlocks, Small)
    \cup {pre \o <<l>> \o post :
            pre \in OneOrNone(Small), l \in LambdaItems, post \in OneOrNone(Small)}

Singles == Literals \cup {b[1] : b \in {c \in Bodies : Len(c) = 1}}

Trees ==
    Singles
    \cup Examples
    \cup {BlockAst(b) : b \in Bodies}
    \cup {LambdaAst(args, x) : args \in FewParams, x \in Singles}
    \cup {LambdaAst(args, BlockAst(b)) : args \in FewParams, b \in Bodies}
    \cup {LambdaAst(args, BlockAst(b)) : args \in Params, b \in SeqsUpTo(Leaves, MaxBodies)}
    \cup {LambdaAst(args, BlockAst(<<DefineAst(s, IntLit)>> \o tail)) :
            args \in Params, s \in Syms, tail \in OneOrNone(Symbols)}

-----------------------------------------------------------------------------
(* One activation of Bound::bind: the node, its span, the binder it was    *)
(* passed, the children bound so far and (Define) the declared source.     *)

Frame(node, span, b) ==
    [ast |-> node, span |-> span, binder |-> b, pc |-> "enter",
     bound |-> <<>>, source |-> NoSource]

Top == stack[Len(stack)]

Active(kinds) ==
    /\ result.tag = "Running"
    /\ stack # <<>>
    /\ Top.ast.kind \in kinds

MoreKids(f) == Len(f.bound) < Len(f.ast.kids)

(* Variant: the children are bound last to first.                          *)
Call_Reversed(f, b) ==
    stack' = Append([stack EXCEPT ![Len(stack)] = f],
                    Frame(f.ast.kids[Len(f.ast.kids) - Len(f.bound)],
                          Append(f.span, Len(f.ast.kids) - Len(f.bound)), b))

(* Bound::bind(child, arena, binder b, interner) from activation f.        *)
Call(f, b) ==
    stack' = Append([stack EXCEPT ![Len(stack)] = f],
                    Frame(f.ast.kids[Len(f.bound) + 1],
                          Append(f.span, Len(f.bound) + 1), b))

(* Variant: the caller collects its children last to first.                *)
Return_Prepend(node, bs) ==
    IF Len(stack) = 1
    THEN /\ stack' = <<>>
         /\ binders' = <<>>
         /\ result' = Ok(node)
    ELSE /\ stack' = [SubSeq(stack, 1, Len(stack) - 1) EXCEPT
                        ![Len(stack) - 1].bound = <<node>> \o @]
         /\ binders' = bs
         /\ UNCHANGED result

(* Ok(arena.alloc(node)): back in the caller, or out of bind_top (whose    *)
(* BuckStopsHereBinder goes out of scope); bs is the chain left alive.     *)
Return(node, bs) ==
    IF Len(stack) = 1
    THEN /\ stack' = <<>>
         /\ binders' = <<>>
         /\ result' = Ok(node)
    ELSE /\ stack' = [SubSeq(stack, 1, Len(stack) - 1) EXCEPT
                        ![Len(stack) - 1].bound = Append(@, node)]
         /\ binders' = bs
         /\ UNCHANGED result

(* return Err(e) / try!: every activation returns the error at once.       *)
Fail(e) ==
    /\ stack' = <<>>
    /\ binders' = <<>>
    /\ result' = Err(e)

Panic ==
    /\ stack' = <<>>
    /\ binders' = <<>>
    /\ result' = Panicked

(* The arms that bind their children in order under the binder they were   *)
(* given and wrap them in a node of their own kind.                        *)
BindElements(kind) ==
    /\ Active({kind})
    /\ IF MoreKids(Top)
       THEN Call(Top, Top.binder) /\ UNCHANGED <<binders, result>>
       ELSE Return(BoundNode(kind, 0, NoSource, <<>>, NoBindings, NoAst,
                             Top.bound, Top.span), binders)
    /\ UNCHANGED <<ast, interner, cso>>

bind_top ==
    /\ result.tag = "NotCalled"
    /\ binders' = <<BuckStopsHereBinder>>
    /\ stack' = <<Frame(ast, <<>>, 1)>>
    /\ result' = Running
    /\ UNCHANGED <<ast, interner, cso>>

BindLiteral ==
    /\ Active(LiteralKinds)
    /\ Return(BoundNode("Literal", 0, NoSource, <<>>, NoBindings, NoAst,
                        <<>>, Top.span), binders)
    /\ UNCHANGED <<ast, interner, cso>>

BindListLit == BindElements("ListLit")

BindMapLit == BindElements("MapLit")

BindSymbol ==
    /\ Active({"Symbol"})
    /\ LET symbol == Top.ast.sym
           found == lookup(binders, Top.binder, symbol)
       IN IF found.some
          THEN Return(BoundNode("Symbol", symbol, found.val, <<>>, NoBindings,
                                NoAst, <<>>, Top.span), binders)
          ELSE Fail(CouldNotBind(symbol, Top.span))
    /\ UNCHANGED <<ast, interner, cso>>

BindAdd == BindElements("Add")

(* Variant: the quoted form is bound like any other child.                 *)
BindQuote_Resolves == BindElements("Quote")

BindQuote ==
    /\ Active({"Quote"})
    /\ Return(BoundNode("Quote", 0, NoSource, <<>>, NoBindings, Top.ast.kids[1],
                        <<>>, Top.span), binders)
    /\ UNCHANGED <<ast, interner, cso>>

BindList == BindElements("List")

(* Variant: a conditional opens a scope of its own, as a block does.       *)
BindIf_OwnScope ==
    /\ Active({"If"})
    /\ LET bs == IF Top.pc = "enter" THEN Append(binders, BlockBinder_new)
                 ELSE binders
       IN IF MoreKids(Top)
          THEN /\ binders' = bs
               /\ Call([Top EXCEPT !.pc = "bodies"], Len(bs))
               /\ UNCHANGED result
          ELSE Return(BoundNode("If", 0, NoSource, <<>>, NoBindings, NoAst,
                                Top.bound, Top.span),
                      SubSeq(bs, 1, Len(bs) - 1))
    /\ UNCHANGED <<ast, interner, cso>>

BindIf == BindElements("If")

BindLambda ==
    /\ Active({"Lambda"})
    /\ IF Top.pc = "enter"
       THEN /\ binders' = Append(binders, LambdaBinder_new(Top.ast.args))
            /\ Call([Top EXCEPT !.pc = "body"], Len(binders) + 1)
            /\ UNCHANGED result
       ELSE Return(BoundNode("Lambda", 0, NoSource, Top.ast.args,
                             binders[Len(binders)].bindings, NoAst,
                             Top.bound, Top.span),
                   SubSeq(binders, 1, Len(binders) - 1))
    /\ UNCHANGED <<ast, interner, cso>>

(* Variant: a block binds its bodies under the binder it was given.        *)
BindBlock_Transparent == BindElements("Block")

BindBlock ==
    /\ Active({"Block"})
    /\ LET bs == IF Top.pc = "enter" THEN Append(binders, BlockBinder_new)
                 ELSE binders
       IN IF MoreKids(Top)
          THEN /\ binders' = bs
               /\ Call([Top EXCEPT !.pc = "bodies"], Len(bs))
               /\ UNCHANGED result
          ELSE Return(BoundNode("Block", 0, NoSource, <<>>, NoBindings, NoAst,
                                Top.bound, Top.span),
                      SubSeq(bs, 1, Len(bs) - 1))
    /\ UNCHANGED <<ast, interner, cso>>

(* Variant: the name is declared without asking already_binds.             *)
BindDefine_Unchecked ==
    /\ Active({"Define"})
    /\ LET symbol == Top.ast.sym IN
       IF Top.pc = "enter"
       THEN LET d == add_declaration(binders, Top.binder, symbol, interner) IN
            IF d.panic
            THEN Panic /\ UNCHANGED interner
            ELSE /\ binders' = d.binders
                 /\ interner' = d.interner
                 /\ Call([Top EXCEPT !.pc = "value", !.source = d.source],
                         Top.binder)
                 /\ UNCHANGED result
       ELSE /\ Return(BoundNode("Define", symbol, Top.source, <<>>, NoBindings,
                                NoAst, Top.bound, Top.span), binders)
            /\ UNCHANGED interner
    /\ UNCHANGED <<ast, cso>>

(* Variant: the value is bound first, the name declared afterwards.         *)
BindDefine_ValueFirst ==
    /\ Active({"Define"})
    /\ LET symbol == Top.ast.sym IN
       IF Top.pc = "enter"
       THEN IF already_binds(binders, Top.binder, symbol)
            THEN Fail(AlreadyDefined(symbol)) /\ UNCHANGED interner
            ELSE /\ Call([Top EXCEPT !.pc = "value"], Top.binder)
                 /\ UNCHANGED <<binders, interner, result>>
       ELSE LET d == add_declaration(binders, Top.binder, symbol, interner) IN
            IF d.panic
            THEN Panic /\ UNCHANGED interner
            ELSE /\ Return(BoundNode("Define", symbol, d.source, <<>>, NoBindings,
                                     NoAst, Top.bound, Top.span), d.binders)
                 /\ interner' = d.interner
    /\ UNCHANGED <<ast, cso>>

BindDefine ==
    /\ Active({"Define"})
    /\ LET symbol == Top.ast.sym IN
       IF Top.pc = "enter"
       THEN IF already_binds(binders, Top.binder, symbol)
            THEN Fail(AlreadyDefined(symbol)) /\ UNCHANGED interner
            ELSE LET d == add_declaration(binders, Top.binder, symbol, interner) IN
                 IF d.panic
                 THEN Panic /\ UNCHANGED interner
                 ELSE /\ binders' = d.binders
                      /\ interner' = d.interner
                      /\ Call([Top EXCEPT !.pc = "value", !.source = d.source],
                              Top.binder)
                      /\ UNCHANGED result
       ELSE /\ Return(BoundNode("Define", symbol, Top.source, <<>>, NoBindings,
                                NoAst, Top.bound, Top.span), binders)
            /\ UNCHANGED interner
    /\ UNCHANGED <<ast, cso>>

(* A call of compute_stack_offset on its own: the summary and the source  *)
(* are the inputs.                                                         *)
MaxCount == 2

Summaries ==
    {[bindings |-> EmptyMap, num_args |-> a, num_upvars |-> u, num_declarations |-> d] :
        a \in 0..MaxCount, u \in 0..MaxCount, d \in 0..MaxCount}

Sources ==
    {Arg(i) : i \in 0..MaxCount} \cup {Upvar(i) : i \in 0..MaxCount}
    \cup {LocalDefine(i) : i \in 0..MaxCount} \cup {Global(s) : s \in Syms}

ComputeStackOffset ==
    /\ cso.pc = "call"
    /\ LET r == compute_stack_offset(cso.self, cso.bind_source) IN
       cso' = [cso EXCEPT !.pc = IF r.panic THEN "panic" ELSE "return",
                          !.panic = r.panic,
                          !.offset = r.offset]
    /\ UNCHANGED <<ast, stack, binders, interner, result>>

InitOffset ==
    /\ ast = NoAst
    /\ stack = <<>>
    /\ binders = <<>>
    /\ interner = NumSyms + 1
    /\ result = NotCalled
    /\ cso \in {[self |-> b, bind_source |-> src, pc |-> "call", panic |-> FALSE,
                 offset |-> 0] : b \in Summaries, src \in Sources}

NextOffset == ComputeStackOffset

SpecOffset == InitOffset /\ [][NextOffset]_vars

CsoIdle == [self |-> NoBindings, bind_source |-> NoSource, pc |-> "idle",
            panic |-> FALSE, offset |-> 0]

Init ==
    /\ ast \in Trees
    /\ stack = <<>>
    /\ binders = <<>>
    /\ interner = NumSyms + 1
    /\ result = NotCalled
    /\ cso = CsoIdle

Next ==
    \/ bind_top
    \/ BindLiteral
    \/ BindListLit
    \/ BindMapLit
    \/ BindSymbol
    \/ BindAdd
    \/ BindQuote
    \/ BindList
    \/ BindIf
    \/ BindLambda
    \/ BindBlock
    \/ BindDefine

Spec == Init /\ [][Next]_vars

-----------------------------------------------------------------------------
(* Vocabulary of the properties: positions in the syntax tree.  The bound  *)
(* tree has the shape of the syntax tree, so a path names a node of both.  *)

RECURSIVE NodeAt(_, _)
NodeAt(node, p) == IF p = <<>> THEN node ELSE NodeAt(node.kids[Head(p)], Tail(p))

(* The nodes bind walks: everything but the inside of quoted forms.        *)
RECURSIVE PathsFrom(_, _)
PathsFrom(node, p) ==
    {p} \cup (IF node.kind = "Quote" THEN {}
              ELSE UNION {PathsFrom(node.kids[i], Append(p, i)) : i \in 1..Len(node.kids)})

WalkedPaths == PathsFrom(ast, <<>>)

KindPaths(kind) == {p \in WalkedPaths : NodeAt(ast, p).kind = kind}

Ancestors(p) == {SubSeq(p, 1, k) : k \in 0..(Len(p) - 1)}

Longest(S) == CHOOSE q \in S : \A r \in S : Len(r) <= Len(q)

(* The function literals around p, and the nearest one.                    *)
Lambdas(p) == {q \in Ancestors(p) : NodeAt(ast, q).kind = "Lambda"}

InFunction(p) == Lambdas(p) # {}

Owner(p) == Longest(Lambdas(p))

SameFunction(p, q) == Lambdas(p) = Lambdas(q)

Range(seq) == {seq[i] : i \in 1..Len(seq)}

LastIndex(seq, x) == CHOOSE i \in 1..Len(seq) : seq[i] = x /\ \A j \in (i + 1)..Len(seq) : seq[j] # x

Done == result.tag = "Ok"

Out(p) == NodeAt(result.bound, p)

(* The references in the body of the function at q, outside nested ones.   *)
RefsOf(q) == {p \in KindPaths("Symbol") : InFunction(p) /\ Owner(p) = q}

-----------------------------------------------------------------------------
(* C1 as stated: every function literal with N parameters yields a Lambda  *)
(* node with num_args = N, and a reference in its body to the i-th         *)
(* parameter symbol resolves to Arg(i), i from 0 in declaration order.     *)
C1_Original ==
    Done =>
      \A q \in KindPaths("Lambda") :
        LET args == NodeAt(ast, q).args IN
        /\ Out(q).kind = "Lambda"
        /\ Out(q).bindings.num_args = Len(args)
        /\ \A i \in 1..Len(args) : \A p \in RefsOf(q) :
              NodeAt(ast, p).sym = args[i] => Out(p).source = Arg(i - 1)

(* C1 amended: num_args = N, and a reference to a parameter symbol         *)
(* resolves to Arg(i) where i is the position of the LAST parameter of     *)
(* that name (the i-th parameter itself when the names are distinct).      *)
C1_ParamsResolve ==
    Done =>
      \A q \in KindPaths("Lambda") :
        LET args == NodeAt(ast, q).args IN
        /\ Out(q).kind = "Lambda"
        /\ Out(q).bindings.num_args = Len(args)
        /\ \A p \in RefsOf(q) :
              NodeAt(ast, p).sym \in Range(args) =>
                /\ Out(p).kind = "Symbol"
                /\ Out(p).source = Arg(LastIndex(args, NodeAt(ast, p).sym) - 1)

C1_Witness ==
    /\ Done
    /\ \E q \in KindPaths("Lambda") :
         /\ Len(NodeAt(ast, q).args) = 2
         /\ \A i \in 1..2 : \E p \in RefsOf(q) :
              /\ NodeAt(ast, p).sym = NodeAt(ast, q).args[i]
              /\ Out(p).source = Arg(i - 1)

(* C2: a reference to a symbol s at the outermost scope (inside no         *)
(* function literal and no block) never fails and yields a Symbol node     *)
(* with source Global(s).                                                  *)
OutermostRefs ==
    {p \in KindPaths("Symbol") :
        \A q \in Ancestors(p) : NodeAt(ast, q).kind \notin {"Lambda", "Block"}}

C2_GlobalAlwaysResolves ==
    /\ Done => \A p \in OutermostRefs :
                  /\ Out(p).kind = "Symbol"
                  /\ Out(p).symbol = NodeAt(ast, p).sym
                  /\ Out(p).source = Global(NodeAt(ast, p).sym)
    /\ result.tag = "Err" /\ result.err.error = "CouldNotBind" =>
          result.err.span \notin OutermostRefs
    /\ stack # <<>> /\ Top.span \in OutermostRefs =>
          lookup(binders, Top.binder, Top.ast.sym) = Some(Global(Top.ast.sym))

C2_Witness ==
    /\ Done
    /\ \E p \in OutermostRefs : p # <<>> /\ Out(p).source = Global(NodeAt(ast, p).sym)

-----------------------------------------------------------------------------
(* Scoping vocabulary, read off the syntax tree alone.                     *)

(* p comes before q in the left-to-right depth-first walk.                 *)
RECURSIVE Before(_, _)
Before(p, q) ==
    IF p = <<>> THEN q # <<>>
    ELSE IF q = <<>> THEN FALSE
    ELSE IF Head(p) = Head(q) THEN Before(Tail(p), Tail(q))
    ELSE Head(p) < Head(q)

(* The function literals and blocks around p, and the nearest one.         *)
Scopes(p) == {q \in Ancestors(p) : NodeAt(ast, q).kind \in {"Lambda", "Block"}}

Scoped(p) == Scopes(p) # {}

Scope(p) == Longest(Scopes(p))

InBlock(p) == Scoped(p) /\ NodeAt(ast, Scope(p)).kind = "Block"

(* The earlier declarations of x whose scope is still open at p and lies   *)
(* in p's own function.                                                    *)
VisibleDecls(p, x) ==
    {d \in KindPaths("Define") :
        /\ NodeAt(ast, d).sym = x
        /\ Before(d, p)
        /\ Scoped(d)
        /\ Scope(d) \in Ancestors(p)
        /\ SameFunction(d, p)}

IsParam(p, x) == InFunction(p) /\ x \in Range(NodeAt(ast, Owner(p)).args)

Entering(kind) ==
    /\ stack # <<>>
    /\ Top.ast.kind = kind
    /\ Top.pc = "enter"

Finished == result.tag \in {"Ok", "Err", "Panic"}

-----------------------------------------------------------------------------
(* C3: when a name x is declared twice directly within one block, the      *)
(* first declaration succeeds and the second fails with AlreadyDefined(x): *)
(* whenever the walk reaches a declaration of x whose block already holds  *)
(* an earlier declaration of x, that earlier one is recorded in the        *)
(* block's binder and the step returns AlreadyDefined(x); no such tree     *)
(* binds; (lambda () (define x 5) (define x 6) x) returns                  *)
(* AlreadyDefined(x).                                                      *)
EarlierInBlock(p) ==
    {d \in VisibleDecls(p, NodeAt(ast, p).sym) : InBlock(p) /\ Scope(d) = Scope(p)}

C3_SecondDeclarationFails ==
    /\ [](ast = ExampleDuplicate /\ Finished => result = Err(AlreadyDefined(1)))
    /\ [](Done => \A p \in KindPaths("Define") : EarlierInBlock(p) = {})
    /\ [][Entering("Define") /\ EarlierInBlock(Top.span) # {} =>
            /\ binders[Top.binder].type = "BlockBinder"
            /\ Top.ast.sym \in DOMAIN binders[Top.binder].symbol_map
            /\ result' = Err(AlreadyDefined(Top.ast.sym))]_vars

C3_Witness ==
    /\ ast = ExampleDuplicate
    /\ result = Err(AlreadyDefined(1))

(* C4: two sibling blocks of one function that each declare a local of the *)
(* same name both bind and their Define nodes carry distinct LocalDefine   *)
(* indices: the declaration in the later block, of a name that is neither  *)
(* a parameter nor declared in a scope still open around it, is accepted   *)
(* whatever the earlier sibling declared, and on success the two sources   *)
(* are LocalDefine with different indices.                                 *)
Parent(p) == SubSeq(p, 1, Len(p) - 1)

SiblingDecls(p) ==
    {d \in KindPaths("Define") :
        /\ NodeAt(ast, d).sym = NodeAt(ast, p).sym
        /\ Before(d, p)
        /\ InFunction(p) /\ SameFunction(d, p)
        /\ InBlock(d) /\ InBlock(p)
        /\ Scope(d) # Scope(p)
        /\ Parent(Scope(d)) = Parent(Scope(p))}

C4_SiblingBlocksDistinct ==
    /\ [](Done => \A p \in KindPaths("Define") : \A d \in SiblingDecls(p) :
                     /\ Out(p).source.tag = "LocalDefine"
                     /\ Out(d).source.tag = "LocalDefine"
                     /\ Out(p).source.idx # Out(d).source.idx)
    /\ [][/\ Entering("Define")
          /\ SiblingDecls(Top.span) # {}
          /\ ~IsParam(Top.span, Top.ast.sym)
          /\ VisibleDecls(Top.span, Top.ast.sym) = {}
          => result'.tag = "Running"]_vars

C4_Witness ==
    /\ Done
    /\ \E p \in KindPaths("Define") : \E d \in SiblingDecls(p) :
          /\ Parent(d) = Scope(d)
          /\ Parent(p) = Scope(p)
          /\ Out(d).source = LocalDefine(0)
          /\ Out(p).source = LocalDefine(1)

(* C5: on success, the Define nodes whose nearest enclosing function       *)
(* literal is F carry LocalDefine(0), LocalDefine(1), ... in the order of  *)
(* the walk, however deep in blocks; F's num_declarations is their number; *)
(* declarations inside nested function literals are not counted in F.      *)
DeclsOf(q) == {d \in KindPaths("Define") : InFunction(d) /\ Owner(d) = q}

C5_FlatSlotsInWalkOrder ==
    Done =>
      \A q \in KindPaths("Lambda") :
        /\ Out(q).bindings.num_declarations = Cardinality(DeclsOf(q))
        /\ \A d \in DeclsOf(q) :
              Out(d).source = LocalDefine(Cardinality({e \in DeclsOf(q) : Before(e, d)}))

C5_Witness ==
    /\ Done
    /\ \E q \in KindPaths("Lambda") : \E r \in KindPaths("Lambda") :
          /\ q \in Lambdas(r)
          /\ DeclsOf(r) # {}
          /\ Cardinality(DeclsOf(q)) = 2
          /\ \E d \in DeclsOf(q) : Before(r, d) /\ Cardinality(Scopes(d)) >= 2
          /\ \E d \in DeclsOf(q) : r \in Ancestors(d) \/ Before(d, r)

(* C6: a reference inside a function literal G to a name bound only in an  *)
(* enclosing function (as parameter or local), and neither a parameter nor *)
(* a visible local of G, fails with CouldNotBind(symbol, span of the       *)
(* reference); (lambda (a) (lambda () a)) returns CouldNotBind(a, inner a).*)
BoundOutside(p, x) ==
    \E f \in Lambdas(p) \ {Owner(p)} :
        \/ x \in Range(NodeAt(ast, f).args)
        \/ \E d \in DeclsOf(f) : NodeAt(ast, d).sym = x /\ Before(d, p)

C6_NoCaptureAcrossFunctions ==
    /\ [](ast = ExampleFreeVariable /\ Finished =>
            result = Err(CouldNotBind(1, <<1, 1, 1, 1>>)))
    /\ [][/\ Entering("Symbol")
          /\ InFunction(Top.span)
          /\ BoundOutside(Top.span, Top.ast.sym)
          /\ ~IsParam(Top.span, Top.ast.sym)
          /\ VisibleDecls(Top.span, Top.ast.sym) = {}
          => result' = Err(CouldNotBind(Top.ast.sym, Top.span))]_vars

C6_Witness ==
    /\ result.tag = "Err"
    /\ result.err.error = "CouldNotBind"
    /\ result.err.span \in KindPaths("Symbol")
    /\ BoundOutside(result.err.span, result.err.symbol)
    /\ \E f \in Lambdas(result.err.span) \ {Owner(result.err.span)} :
          \E d \in DeclsOf(f) : NodeAt(ast, d).sym = result.err.symbol

-----------------------------------------------------------------------------
Indices(summary, tag) ==
    {summary.bindings[k].idx : k \in {j \in DOMAIN summary.bindings :
                                           summary.bindings[j].tag = tag}}

SingleSource(summary) ==
    \A k \in DOMAIN summary.bindings :
        Cardinality({src \in {summary.bindings[j] : j \in DOMAIN summary.bindings} :
                        \E j \in DOMAIN summary.bindings :
                            j = k /\ summary.bindings[j] = src}) = 1

C8_Original ==
    Done =>
      \A q \in KindPaths("Lambda") :
        /\ Indices(Out(q).bindings, "Arg") = 0..(Out(q).bindings.num_args - 1)
        /\ Indices(Out(q).bindings, "LocalDefine") =
              0..(Out(q).bindings.num_declarations - 1)
        /\ SingleSource(Out(q).bindings)

(* C8 amended: the Arg indices are exactly the positions of the last       *)
(* parameter of each name, all below num_args, and are 0..num_args-1       *)
(* exactly when the parameter names are pairwise distinct; the rest as     *)
(* stated.                                                                 *)
Distinct(seq) == \A i \in 1..Len(seq) : \A j \in 1..Len(seq) : seq[i] = seq[j] => i = j

C8_SummaryIndices ==
    Done =>
      \A q \in KindPaths("Lambda") :
        LET args == NodeAt(ast, q).args
            summary == Out(q).bindings
        IN /\ Indices(summary, "Arg") = {LastIndex(args, x) - 1 : x \in Range(args)}
           /\ Indices(summary, "Arg") \subseteq 0..(summary.num_args - 1)
           /\ Distinct(args) <=> Indices(summary, "Arg") = 0..(summary.num_args - 1)
           /\ Indices(summary, "LocalDefine") = 0..(summary.num_declarations - 1)
           /\ SingleSource(summary)

C8_Witness ==
    /\ Done
    /\ \E q \in KindPaths("Lambda") :
          /\ ~Distinct(NodeAt(ast, q).args)
          /\ Out(q).bindings.num_args = 2
          /\ Out(q).bindings.num_declarations = 1
          /\ Indices(Out(q).bindings, "Arg") = {1}
          /\ Indices(Out(q).bindings, "LocalDefine") = {0}

(* C9: CouldNotBind is only ever returned for a reference inside at least  *)
(* one function literal; for a tree with no function literal bind_top      *)
(* never returns CouldNotBind.                                             *)
C9_UnresolvedOnlyInFunctions ==
    result.tag = "Err" /\ result.err.error = "CouldNotBind" =>
        /\ KindPaths("Lambda") # {}
        /\ result.err.span \in KindPaths("Symbol")
        /\ result.err.symbol = NodeAt(ast, result.err.span).sym
        /\ InFunction(result.err.span)

C9_Witness ==
    /\ Done
    /\ KindPaths("Lambda") = {}
    /\ \E p \in KindPaths("Symbol") :
          /\ Cardinality(Scopes(p)) >= 2
          /\ VisibleDecls(p, NodeAt(ast, p).sym) # {}
          /\ Out(p).source.tag = "Global"
          /\ Out(p).source.sym \notin Syms

(* C10: binding is fail-fast: bind returns Err with exactly the error of   *)
(* the first node, in the left-to-right depth-first walk (map key before   *)
(* value; condition, then-branch, else-branch; a declaration's duplicate   *)
(* check before its value), that raises one; nothing is processed after    *)
(* it and no resolved tree is returned.                                    *)
WouldFail(p) ==
    LET x == NodeAt(ast, p).sym IN
    CASE NodeAt(ast, p).kind = "Symbol" ->
            InFunction(p) /\ ~IsParam(p, x) /\ VisibleDecls(p, x) = {}
      [] NodeAt(ast, p).kind = "Define" ->
            Scoped(p) /\ (IsParam(p, x) \/ VisibleDecls(p, x) # {})
      [] OTHER -> FALSE

ErrorOf(p) ==
    IF NodeAt(ast, p).kind = "Symbol"
    THEN CouldNotBind(NodeAt(ast, p).sym, p)
    ELSE AlreadyDefined(NodeAt(ast, p).sym)

FailingNodes == {p \in WalkedPaths : WouldFail(p)}

FirstFailing == CHOOSE p \in FailingNodes : \A q \in FailingNodes \ {p} : Before(p, q)

C10_FailFast ==
    /\ [](result.tag = "Err" =>
            /\ FailingNodes # {}
            /\ result = Err(ErrorOf(FirstFailing))
            /\ result.bound = NoBound
            /\ stack = <<>>)
    /\ [](Done => FailingNodes = {})
    /\ [](result.tag # "Panic")
    /\ [][result.tag = "Err" => UNCHANGED vars]_vars

C10_Witness ==
    /\ result.tag = "Err"
    /\ \E p \in FailingNodes : \E q \in FailingNodes :
          /\ Before(p, q)
          /\ ErrorOf(p).error # ErrorOf(q).error
          /\ NodeAt(ast, Parent(p)).kind \in {"MapLit", "If"}
          /\ Parent(q) = Parent(p)
          /\ result.err = ErrorOf(p)

-----------------------------------------------------------------------------
(* C11: inside a function, a declaration of x made in a block fails with   *)
(* AlreadyDefined(x) whenever x is a parameter of the owning function, or  *)
(* was declared earlier in the current block, or was declared earlier in   *)
(* an enclosing block of the same function that is still open; no tree     *)
(* holding such a declaration binds.                                       *)
EnclosingBlockDecls(p) ==
    {d \in VisibleDecls(p, NodeAt(ast, p).sym) :
        InBlock(p) /\ InBlock(d) /\ Scope(d) \in Ancestors(Scope(p))}

Redeclares(p) ==
    /\ InFunction(p)
    /\ InBlock(p)
    /\ \/ IsParam(p, NodeAt(ast, p).sym)
       \/ EarlierInBlock(p) # {}
       \/ EnclosingBlockDecls(p) # {}

C11_RedeclarationInFunctionFails ==
    /\ [](Done => \A p \in KindPaths("Define") : ~Redeclares(p))
    /\ [][Entering("Define") /\ Redeclares(Top.span) =>
            /\ already_binds(binders, Top.binder, Top.ast.sym)
            /\ result' = Err(AlreadyDefined(Top.ast.sym))]_vars

C11_Witness ==
    /\ result.tag = "Err"
    /\ result.err.error = "AlreadyDefined"
    /\ FailingNodes # {}
    /\ NodeAt(ast, FirstFailing).kind = "Define"
    /\ NodeAt(ast, FirstFailing).sym = result.err.symbol
    /\ InFunction(FirstFailing)
    /\ ~IsParam(FirstFailing, result.err.symbol)
    /\ EarlierInBlock(FirstFailing) = {}
    /\ EnclosingBlockDecls(FirstFailing) # {}

-----------------------------------------------------------------------------
(* C12: the duplicate-definition check stops at the owning function: a     *)
(* declaration inside a nested function literal of a name that is a        *)
(* parameter or an earlier local of an enclosing function, or an earlier   *)
(* declaration of a block around the nested function, and that the nested  *)
(* function does not itself bind, is accepted (no AlreadyDefined) and      *)
(* receives the next LocalDefine slot of the nested function.              *)
DeclaredAround(p, x) ==
    \E d \in KindPaths("Define") :
        /\ NodeAt(ast, d).sym = x
        /\ Before(d, p)
        /\ InBlock(d)
        /\ Scope(d) \in Ancestors(Owner(p))

ShadowsOuter(p) ==
    LET x == NodeAt(ast, p).sym IN
    /\ InFunction(p)
    /\ BoundOutside(p, x) \/ DeclaredAround(p, x)
    /\ ~IsParam(p, x)
    /\ VisibleDecls(p, x) = {}

(* The LambdaBinder of the innermost function being bound.                 *)
OwnerBinder ==
    binders[CHOOSE i \in 1..Len(binders) :
              /\ binders[i].type = "LambdaBinder"
              /\ \A j \in (i + 1)..Len(binders) : binders[j].type # "LambdaBinder"]

C12_CheckStopsAtFunction ==
    /\ [](Done => \A p \in KindPaths("Define") :
            ShadowsOuter(p) =>
              /\ Out(p).source.tag = "LocalDefine"
              /\ Out(p).source.idx < Out(Owner(p)).bindings.num_declarations
              /\ Out(p).source \in
                   {Out(Owner(p)).bindings.bindings[k] :
                       k \in DOMAIN Out(Owner(p)).bindings.bindings})
    /\ [][Entering("Define") /\ ShadowsOuter(Top.span) =>
            /\ result'.tag = "Running"
            /\ stack'[Len(stack)].source =
                  LocalDefine(OwnerBinder.bindings.num_declarations)]_vars

C12_Witness ==
    /\ Done
    /\ \E p \in KindPaths("Define") :
          /\ ShadowsOuter(p)
          /\ BoundOutside(p, NodeAt(ast, p).sym)
          /\ DeclaredAround(p, NodeAt(ast, p).sym)
          /\ Out(p).source = LocalDefine(0)
          /\ Out(Owner(p)).bindings.num_declarations = 1

-----------------------------------------------------------------------------
(* C13: in (define x value) the name is declared before the value is       *)
(* bound: a reference to x in the value expression (in the same function,  *)
(* with no later declaration of x in between) never fails to resolve and   *)
(* resolves to the very source the Define node carries.                    *)
OwnDefines(p) ==
    {d \in KindPaths("Define") \cap Ancestors(p) :
        /\ NodeAt(ast, d).sym = NodeAt(ast, p).sym
        /\ SameFunction(d, p)
        /\ \A e \in KindPaths("Define") :
              NodeAt(ast, e).sym = NodeAt(ast, p).sym /\ Before(d, e) => ~Before(e, p)}

-----------------------------------------------------------------------------
(* C14: within one block, a declaration made by an earlier sub-expression  *)
(* is visible to every later sub-expression of the block and to the blocks *)
(* nested in them (a reference resolves to exactly the source stored in    *)
(* the Define node), and never to an earlier one: a reference placed       *)
(* before the declaration does not get its source, and inside a function   *)
(* it fails with CouldNotBind unless the name is a parameter.              *)
BlockDecls(p) ==
    {d \in VisibleDecls(p, NodeAt(ast, p).sym) : InBlock(d) /\ d \notin Ancestors(p)}

(* The declarations of p's name that come later in a block around p.       *)
LaterDecls(p) ==
    {d \in KindPaths("Define") :
        /\ NodeAt(ast, d).sym = NodeAt(ast, p).sym
        /\ Before(p, d)
        /\ InBlock(d)
        /\ Scope(d) \in Ancestors(p)
        /\ SameFunction(d, p)}

C14_EarlierVisibleLaterNot ==
    /\ [](Done => \A p \in KindPaths("Symbol") :
            /\ \A d \in BlockDecls(p) : Out(p).source = Out(d).source
            /\ \A d \in LaterDecls(p) : Out(p).source # Out(d).source)
    /\ [][Entering("Symbol") /\ BlockDecls(Top.span) # {} => result'.tag = "Running"]_vars
    /\ [][/\ Entering("Symbol")
          /\ LaterDecls(Top.span) # {}
          /\ InFunction(Top.span)
          /\ ~IsParam(Top.span, Top.ast.sym)
          /\ VisibleDecls(Top.span, Top.ast.sym) = {}
          => result' = Err(CouldNotBind(Top.ast.sym, Top.span))]_vars

C14_Witness ==
    /\ Done
    /\ \E p \in KindPaths("Symbol") : \E d \in BlockDecls(p) :
          /\ InFunction(p)
          /\ Scope(p) # Scope(d)
          /\ Out(d).source.tag = "LocalDefine"
          /\ Out(p).source = Out(d).source

-----------------------------------------------------------------------------
(* C15 as stated: a conditional introduces no scope: condition, then and   *)
(* else are bound in that order under the binder the conditional was       *)
(* given; a declaration made directly in one of them is visible to the     *)
(* later branches and to what follows the conditional in the same block;   *)
(* declaring the same name directly in both the then-branch and the        *)
(* else-branch fails with AlreadyDefined.                                  *)
IfDecls(p) ==
    {d \in KindPaths("Define") :
        /\ NodeAt(ast, d).sym = NodeAt(ast, p).sym
        /\ d # <<>>
        /\ NodeAt(ast, Parent(d)).kind = "If"
        /\ Before(d, p)
        /\ d \notin Ancestors(p)
        /\ SameFunction(d, p)
        /\ \/ Parent(d) \in Ancestors(p)
           \/ InBlock(d) /\ Scope(d) \in Ancestors(p)
        /\ \A e \in VisibleDecls(p, NodeAt(ast, p).sym) : ~Before(d, e)}

IfInOrder ==
    Active({"If"}) /\ MoreKids(Top) =>
        /\ Len(stack') = Len(stack) + 1
        /\ stack'[Len(stack')].span = Append(Top.span, Len(Top.bound) + 1)
        /\ stack'[Len(stack')].binder = Top.binder
        /\ binders' = binders

(* Both branches of the conditional above p declare p's name; p the else.  *)
BothBranches(p) ==
    /\ p # <<>>
    /\ NodeAt(ast, Parent(p)).kind = "If"
    /\ p[Len(p)] = 3
    /\ NodeAt(ast, Append(Parent(p), 2)).kind = "Define"
    /\ NodeAt(ast, Append(Parent(p), 2)).sym = NodeAt(ast, p).sym

C15_Original ==
    /\ [](Done => \A p \in KindPaths("Symbol") : \A d \in IfDecls(p) :
                     Out(p).source = Out(d).source)
    /\ [][IfInOrder]_vars
    /\ [][Entering("Define") /\ BothBranches(Top.span) =>
            result' = Err(AlreadyDefined(Top.ast.sym))]_vars

(* C15 amended: as stated, except that the second of the two declarations  *)
(* fails with AlreadyDefined when the conditional lies inside a block or a *)
(* function; under the outermost binder both declarations are accepted     *)
(* with source Global(name).                                               *)
C15_IfSharesScope ==
    /\ [](Done => \A p \in KindPaths("Symbol") : \A d \in IfDecls(p) :
                     Out(p).source = Out(d).source)
    /\ [](Done => \A p \in KindPaths("Define") :
                     BothBranches(p) =>
                        /\ ~Scoped(p)
                        /\ Out(p).source = Global(NodeAt(ast, p).sym)
                        /\ Out(Append(Parent(p), 2)).source = Global(NodeAt(ast, p).sym))
    /\ [][IfInOrder]_vars
    /\ [][Entering("Define") /\ BothBranches(Top.span) =>
            IF Scoped(Top.span)
            THEN result' = Err(AlreadyDefined(Top.ast.sym))
            ELSE result'.tag = "Running"]_vars

C15_Witness ==
    /\ result.tag = "Err"
    /\ result.err.error = "AlreadyDefined"
    /\ FailingNodes # {}
    /\ BothBranches(FirstFailing)
    /\ InFunction(FirstFailing)
    /\ NodeAt(ast, FirstFailing).kind = "Define"
    /\ ~IsParam(FirstFailing, result.err.symbol)
    /\ NodeAt(ast, Append(Parent(FirstFailing), 1)).kind = "Symbol"

-----------------------------------------------------------------------------
(* C16: binding a quoted form never fails whatever the quoted subtree      *)
(* holds, the Quote node stores the quoted syntax node unchanged, nothing  *)
(* inside it is bound, and the binder chain and the interner are left as   *)
(* they were (no declaration, no local slot, no fresh symbol).             *)
QuoteNode(f) ==
    BoundNode("Quote", 0, NoSource, <<>>, NoBindings, f.ast.kids[1], <<>>, f.span)

C16_QuoteSuppressesBinding ==
    /\ [](Done => \A q \in KindPaths("Quote") :
                     /\ Out(q).kind = "Quote"
                     /\ Out(q).quoting = NodeAt(ast, q).kids[1]
                     /\ Out(q).kids = <<>>)
    /\ [][Active({"Quote"}) =>
            /\ interner' = interner
            /\ IF Len(stack) = 1
               THEN result' = Ok(QuoteNode(Top))
               ELSE /\ result' = result
                    /\ binders' = binders
                    /\ Len(stack') = Len(stack) - 1
                    /\ stack'[Len(stack')].bound =
                          Append(stack[Len(stack')].bound, QuoteNode(Top))]_vars

C16_Witness ==
    /\ Done
    /\ \E q \in KindPaths("Quote") :
          /\ InFunction(q)
          /\ Out(q).quoting = ExampleDuplicate
          /\ Out(Owner(q)).bindings.num_declarations = 1
          /\ \E d \in DeclsOf(Owner(q)) : Before(q, d)

-----------------------------------------------------------------------------
(* C17: nothing ever produces an Upvar: in every tree bind_top returns,    *)
(* every Lambda node's summary has num_upvars = 0 and no Upvar among its   *)
(* entries, and no Symbol or Define node carries an Upvar source; the same *)
(* holds of every binder and every partial result while bind runs.         *)
NoUpvars(summary) ==
    /\ summary.num_upvars = 0
    /\ \A k \in DOMAIN summary.bindings : summary.bindings[k].tag # "Upvar"

RECURSIVE UpvarFree(_)
UpvarFree(node) ==
    /\ node.source.tag # "Upvar"
    /\ NoUpvars(node.bindings)
    /\ \A i \in 1..Len(node.kids) : UpvarFree(node.kids[i])

C17_NoUpvars ==
    /\ Done => UpvarFree(result.bound)
    /\ Done => \A q \in KindPaths("Lambda") : Out(q).bindings.num_upvars = 0
    /\ \A i \in 1..Len(binders) : NoUpvars(binders[i].bindings)
    /\ \A i \in 1..Len(stack) :
          /\ stack[i].source.tag # "Upvar"
          /\ \A j \in 1..Len(stack[i].bound) : UpvarFree(stack[i].bound[j])

C17_Witness ==
    /\ Done
    /\ \E q \in KindPaths("Lambda") : \E r \in KindPaths("Lambda") :
          /\ q \in Lambdas(r)
          /\ RefsOf(q) # {}
          /\ DeclsOf(q) # {}
          /\ RefsOf(r) # {}
          /\ NodeAt(ast, r).args # <<>>

-----------------------------------------------------------------------------
(* C18: a parameter list that repeats a name is not rejected: entering the *)
(* function literal raises no error, num_args is the full length of the    *)
(* list, the summary holds one entry per distinct name, and the repeated   *)
(* name (in the summary and in every reference to it in the body) has the  *)
(* source Arg(j), j the position of its last occurrence.                   *)
ArgKeys(summary) == {k \in DOMAIN summary.bindings : summary.bindings[k].tag = "Arg"}

Repeats(q) == ~Distinct(NodeAt(ast, q).args)

C18_DuplicateParamsAccepted ==
    /\ [](Done => \A q \in KindPaths("Lambda") :
            Repeats(q) =>
              LET args == NodeAt(ast, q).args
                  summary == Out(q).bindings
              IN /\ summary.num_args = Len(args)
                 /\ Out(q).arg_symbols = args
                 /\ ArgKeys(summary) = Range(args)
                 /\ Cardinality(ArgKeys(summary)) < summary.num_args
                 /\ \A x \in Range(args) : summary.bindings[x] = Arg(LastIndex(args, x) - 1)
                 /\ \A p \in RefsOf(q) : NodeAt(ast, p).sym \in Range(args) =>
                       Out(p).source = Arg(LastIndex(args, NodeAt(ast, p).sym) - 1))
    /\ [][Entering("Lambda") /\ Repeats(Top.span) =>
            /\ result'.tag = "Running"
            /\ Len(binders') = Len(binders) + 1
            /\ binders'[Len(binders')].bindings.num_args = Len(Top.ast.args)
            /\ DOMAIN binders'[Len(binders')].bindings.bindings = Range(Top.ast.args)
            /\ \A x \in Range(Top.ast.args) :
                  binders'[Len(binders')].bindings.bindings[x] =
                     Arg(LastIndex(Top.ast.args, x) - 1)]_vars
    /\ [](Finished /\ FailingNodes = {} /\ (\E q \in KindPaths("Lambda") : Repeats(q))
            => Done)

C18_Witness ==
    /\ Done
    /\ \E q \in KindPaths("Lambda") :
          /\ NodeAt(ast, q).args = <<1, 1>>
          /\ Out(q).bindings.num_args = 2
          /\ ArgKeys(Out(q).bindings) = {1}
          /\ \E p \in RefsOf(q) : NodeAt(ast, p).sym = 1 /\ Out(p).source = Arg(1)

-----------------------------------------------------------------------------
(* C19: at the outermost scope (inside no function literal and no block)   *)
(* redefinition is always permitted: a declaration there never returns     *)
(* AlreadyDefined, however often the name was declared before, and every   *)
(* such Define node carries Global(name).                                  *)
OutermostDecls == {d \in KindPaths("Define") : ~Scoped(d)}

EarlierOutermost(p) ==
    {d \in OutermostDecls : NodeAt(ast, d).sym = NodeAt(ast, p).sym /\ Before(d, p)}

C19_TopLevelRedefinition ==
    /\ [](Done => \A d \in OutermostDecls :
                     /\ Out(d).kind = "Define"
                     /\ Out(d).symbol = NodeAt(ast, d).sym
                     /\ Out(d).source = Global(NodeAt(ast, d).sym))
    /\ [][Entering("Define") /\ Top.span \in OutermostDecls =>
            /\ result'.tag = "Running"
            /\ stack'[Len(stack)].source = Global(Top.ast.sym)
            /\ interner' = interner
            /\ binders' = binders]_vars
    /\ [](result.tag = "Err" /\ result.err.error = "AlreadyDefined" =>
            FailingNodes # {} /\ FirstFailing \notin OutermostDecls)

C19_Witness ==
    /\ Done
    /\ \E p \in OutermostDecls : \E d \in EarlierOutermost(p) :
          /\ d \notin Ancestors(p)
          /\ Out(d).source = Global(NodeAt(ast, p).sym)
          /\ Out(p).source = Global(NodeAt(ast, p).sym)

-----------------------------------------------------------------------------
(* C20: on success the bound tree is parallel to the syntax tree: every    *)
(* syntax node bind walks yields exactly one bound node, of the variant of *)
(* its kind, that refers to that syntax node and has as many children, in  *)
(* the same order (a Lambda node also the same parameter list; the inside  *)
(* of a Quote is kept as syntax); a literal becomes Literal(that node)     *)
(* whatever the binder chain, which it leaves unchanged.                   *)
VariantOf(kind) == IF kind \in LiteralKinds THEN "Literal" ELSE kind

BoundPaths == PathsFrom(result.bound, <<>>)

LiteralNode(f) ==
    BoundNode("Literal", 0, NoSource, <<>>, NoBindings, NoAst, <<>>, f.span)

-----------------------------------------------------------------------------
(* C21: for every function node bind produces, compute_stack_offset gives  *)
(* the entries of the function's summary pairwise distinct offsets, each   *)
(* below the frame size num_args + num_upvars + num_declarations, also     *)
(* when parameter names repeat; the same holds of the summary under        *)
(* construction in every LambdaBinder.                                     *)
FrameSize(summary) == summary.num_args + summary.num_upvars + summary.num_declarations

OffsetOf(summary, k) == compute_stack_offset(summary, summary.bindings[k])

SlotsDisjoint(summary) ==
    /\ \A k \in DOMAIN summary.bindings :
          /\ ~OffsetOf(summary, k).panic
          /\ OffsetOf(summary, k).offset < FrameSize(summary)
    /\ \A k \in DOMAIN summary.bindings : \A j \in DOMAIN summary.bindings :
          OffsetOf(summary, k).offset = OffsetOf(summary, j).offset => k = j

C21_SlotsDistinctInFrame ==
    /\ Done => \A q \in KindPaths("Lambda") : SlotsDisjoint(Out(q).bindings)
    /\ \A i \in 1..Len(binders) :
          binders[i].type = "LambdaBinder" => SlotsDisjoint(binders[i].bindings)

C21_Witness ==
    /\ Done
    /\ \E q \in KindPaths("Lambda") :
          /\ Repeats(q)
          /\ FrameSize(Out(q).bindings) = 3
          /\ {OffsetOf(Out(q).bindings, k).offset : k \in DOMAIN Out(q).bindings.bindings}
                = {1, 2}

-----------------------------------------------------------------------------
(* C22: in every bound tree, a Symbol or Define node whose nearest         *)
(* enclosing function literal is F carries a source that is a value of F's *)
(* summary map, Arg(i) with i < num_args or LocalDefine(j) with            *)
(* j < num_declarations, never Global or Upvar, so compute_stack_offset    *)
(* with F's summary does not panic on it; Global sources occur exactly on  *)
(* the nodes outside every function literal.                               *)
Sourced == KindPaths("Symbol") \cup KindPaths("Define")

Values(summary) == {summary.bindings[k] : k \in DOMAIN summary.bindings}

InFrame(summary, source) ==
    /\ source \in Values(summary)
    /\ \/ source.tag = "Arg" /\ source.idx < summary.num_args
       \/ source.tag = "LocalDefine" /\ source.idx < summary.num_declarations
    /\ ~compute_stack_offset(summary, source).panic

C22_SourcesBelongToFunction ==
    Done =>
      \A p \in Sourced :
        IF InFunction(p)
        THEN InFrame(Out(Owner(p)).bindings, Out(p).source)
        ELSE Out(p).source.tag = "Global"

C22_Witness ==
    /\ Done
    /\ \E p \in KindPaths("Symbol") : \E r \in KindPaths("Symbol") :
       \E d \in KindPaths("Define") :
          /\ InFunction(p) /\ InFunction(r) /\ InFunction(d)
          /\ Owner(p) = Owner(d) /\ Owner(r) = Owner(d)
          /\ Out(p).source.tag = "Arg"
          /\ Out(d).source.tag = "LocalDefine"
          /\ Out(r).source = Out(d).source
          /\ d \notin Ancestors(r)

-----------------------------------------------------------------------------
(* C23: the assertion of LambdaBinder::add_declaration (the key is not     *)
(* yet in the function's map) holds on every call bind_top can lead to:    *)
(* whenever a Define passes the already_binds check, directly under a      *)
(* function's binder or through one or more blocks that each rename it to  *)
(* a fresh symbol, the key that reaches the function is new; bind never    *)
(* panics.                                                                 *)
RECURSIVE ForwardedKey(_, _, _, _)
ForwardedKey(bs, i, symbol, intr) ==
    IF bs[i].type = "BlockBinder"
    THEN ForwardedKey(bs, i - 1, gensym(intr).symbol, gensym(intr).interner)
    ELSE [binder |-> i, key |-> symbol]

Declaring ==
    /\ Entering("Define")
    /\ ~already_binds(binders, Top.binder, Top.ast.sym)

C23_AssertionHolds ==
    /\ result.tag # "Panic"
    /\ Declaring =>
          LET f == ForwardedKey(binders, Top.binder, Top.ast.sym, interner) IN
          /\ ~add_declaration(binders, Top.binder, Top.ast.sym, interner).panic
          /\ binders[f.binder].type = "LambdaBinder" =>
                f.key \notin DOMAIN binders[f.binder].bindings.bindings
    /\ \A i \in 1..Len(binders) :
          /\ \A k \in DOMAIN binders[i].bindings.bindings : k < interner
          /\ \A k \in DOMAIN binders[i].symbol_map : binders[i].symbol_map[k] < interner

C23_Witness ==
    /\ Done
    /\ \E d \in KindPaths("Define") : \E e \in KindPaths("Define") :
          /\ InFunction(d) /\ InFunction(e)
          /\ Owner(d) = Owner(e)
          /\ NodeAt(ast, d).sym = NodeAt(ast, e).sym
          /\ Before(d, e)
          /\ Cardinality(Scopes(d)) >= 3
          /\ Out(d).source = LocalDefine(0)
          /\ Out(e).source = LocalDefine(1)

-----------------------------------------------------------------------------
(* C24: a block's declarations end with the block.  After a nested block   *)
(* has been bound, a name declared only inside it is not visible in the    *)
(* enclosing block: inside a function a later reference fails with         *)
(* CouldNotBind, outside any function it resolves to Global(x); and the    *)
(* enclosing block may declare the name itself without AlreadyDefined,     *)
(* getting a new, higher LocalDefine index while the finished block's slot *)
(* stays counted in the function's num_declarations.                       *)
ClosedDecls(p) ==
    {d \in KindPaths("Define") :
        /\ NodeAt(ast, d).sym = NodeAt(ast, p).sym
        /\ Before(d, p)
        /\ InBlock(d)
        /\ SameFunction(d, p)
        /\ Scope(d) \notin Ancestors(p)
        /\ \E b \in Scopes(p) :
              NodeAt(ast, b).kind = "Block" /\ b \in Ancestors(Scope(d))}

Forgotten(p) ==
    /\ ClosedDecls(p) # {}
    /\ ~IsParam(p, NodeAt(ast, p).sym)
    /\ VisibleDecls(p, NodeAt(ast, p).sym) = {}

C24_DeclarationsEndWithBlock ==
    /\ [][Entering("Symbol") /\ Forgotten(Top.span) =>
            IF InFunction(Top.span)
            THEN result' = Err(CouldNotBind(Top.ast.sym, Top.span))
            ELSE /\ result'.tag = "Running"
                 /\ lookup(binders, Top.binder, Top.ast.sym) = Some(Global(Top.ast.sym))]_vars
    /\ [][Entering("Define") /\ Forgotten(Top.span) =>
            /\ result'.tag = "Running"
            /\ binders[Len(binders)].type = "BlockBinder"
            /\ Top.ast.sym \notin DOMAIN binders[Len(binders)].symbol_map]_vars
    /\ [](Done => \A p \in KindPaths("Symbol") :
            Forgotten(p) /\ OwnDefines(p) = {} =>
               /\ Out(p).source = Global(NodeAt(ast, p).sym)
               /\ \A d \in ClosedDecls(p) : Out(d).source # Out(p).source)
    /\ [](Done => \A p \in KindPaths("Define") :
            Forgotten(p) /\ InFunction(p) =>
               \A d \in ClosedDecls(p) :
                  /\ Out(d).source.tag = "LocalDefine"
                  /\ Out(p).source.tag = "LocalDefine"
                  /\ Out(d).source.idx < Out(p).source.idx
                  /\ Out(p).source.idx < Out(Owner(p)).bindings.num_declarations
                  /\ Out(d).source \in Values(Out(Owner(p)).bindings))

C24_Witness ==
    /\ Done
    /\ \E p \in KindPaths("Define") : \E d \in ClosedDecls(p) :
          /\ InFunction(p)
          /\ Parent(Scope(d)) = Scope(p)
          /\ Out(d).source = LocalDefine(0)
          /\ Out(p).source = LocalDefine(1)
          /\ Out(Owner(p)).bindings.num_declarations = 2

====
